---------------------------- MODULE Spec2Model ----------------------------
(***************************************************************************)
(* A model of fredio: the RateLimiter of fredio/locks.py (a                *)
(* BoundedSemaphore whose permits come back only through the replenish     *)
(* loop), the retrying request() and the paginating get() of               *)
(* fredio/client.py, and the older Session._request of fredio/session.py.  *)
(*                                                                         *)
(* Time is counted in whole seconds (now), except where get_backoff() and *)
(* get_counter() are looked at on their own (probe).  Every coroutine step *)
(* between two awaits is one action, as the asyncio event loop runs it.    *)
(***************************************************************************)
EXTENDS Integers, Sequences, FiniteSets, TLC

(***************************************************************************)
(* Bounds of the model.                                                    *)
(***************************************************************************)
NumTasks == 2          \* concurrent callers of acquire() or request()
MaxCapacity == 2       \* limit given to RateLimiter(limit, period)
Period == 2            \* period given to RateLimiter, in seconds
MaxTime == 4           \* the clock stops advancing here
MaxExtra == 1          \* release() calls made without a matching acquire()
MaxRetries == 2        \* the retries argument of request()
MaxCount == 3          \* largest count field of a page
MaxLimit == 2          \* largest limit field of a page
MaxOffset == 1         \* largest offset field of the probe page
MaxCancels == 1        \* requests whose awaiting task is cancelled
NumEmitters == 1       \* callers of request() while events are listened for
MaxHandlers == 2       \* handlers registered, over all event names
MaxEvents == 2         \* calls of produce() on the event bus
TicksPerUnit == 2      \* the readings of the clock that lie in one second
MaxPeriod == 3         \* longest of the short periods, in readings of the clock

\* enums.FRED_API_RATE_RESET, the default period, in seconds.
FRED_API_RATE_RESET == 60

Callers == 1..NumTasks
Emitters == 1..NumEmitters
Tasks == 1..(IF NumTasks > MaxCount THEN NumTasks ELSE MaxCount)
None == "None"
\* A page body without count, limit and offset (has = FALSE): dict.get()
\* gives None for the first two and the default 0 for offset.
Absent == [has |-> FALSE, count |-> 0, limit |-> 0, offset |-> 0]

VARIABLES
    now,          \* Timer.time()
    bound_value,  \* BoundedSemaphore._bound_value (the limit)
    value,        \* Semaphore._value: free permits
    waiters,      \* Semaphore._waiters: tasks whose future is pending
    releases,     \* RateLimiter._releases: deque of <<timestamp, counter>>
    task,         \* RateLimiter._task: "none", "alive", or "dead" (ended by an exception)
    loops,        \* replenish tasks of this limiter that the event loop still runs
    wake,         \* when the replenish task's current sleep ends
    extra,        \* number of release() calls made by non-holders so far
    pc,           \* where each task is
    held,         \* TRUE between a returned acquire() and the matching release()
    acqWin,       \* acqWin[i]: acquire() calls that returned i-1 seconds ago
    retries,      \* request(): the local variable retries
    attempts,     \* Session._request(): the local variable attempts
    twake,        \* when the task's backoff sleep ends
    r0,           \* the retries argument the call was made with
    calls,        \* HTTP calls the task has issued (the tests' req.call_count)
    n429,         \* responses with status 429 the task has received
    last,         \* outcome of the task's latest HTTP call
    gpc,          \* where the get() coroutine is
    meta,         \* count/limit/offset of the pages the upstream serves
    url,          \* the offset parameter of each task's url: <<x>>, or <<>> without one
    results,      \* get(): the local list results
    finished,     \* the tasks given to gather(), in the order they completed
    old,          \* the limiter that set_rate_limit replaced, if any
    on,           \* the limiter each task called acquire() on: "cur" or "old"
    listening,    \* events.running(): the consumer task exists and is not done
    queue,        \* events.queue: the <<name, task>> items put on it
    path,         \* the path of each task's url, "/" being a token of its own
    unfinished,   \* events.queue._unfinished_tasks
    handlers,     \* events._events: how many handlers each name has, 0 if it has no Event
    frozen,       \* Event._frozen of each name
    applying,     \* the tasks running Event.apply, in the order consume() made them
    delivered,    \* how many of its handlers have been called for each event
    consumers,    \* consumer tasks (_listen) that the event loop still runs
    canc,         \* where events.cancel() is, its timeout and whether it logged TimeoutError
    abandoned,    \* the events that were on the queue when a cancel() timed out
    produced,     \* produce() calls made so far; the serial number of the latest event
    probe         \* a caller of get_counter() and get_backoff(): arguments and results

limVars == <<bound_value, value, waiters, releases, task, loops, wake, extra>>
taskVars == <<pc, held>>
reqVars == <<retries, attempts, twake, r0, calls, n429, last>>
getVars == <<gpc, meta, url, results, finished>>
oldVars == <<old, on>>
evVars == <<listening, queue, path>>
busVars == <<unfinished, handlers, frozen, applying, delivered, consumers, canc,
             abandoned, produced>>
vars == <<now, limVars, taskVars, acqWin, reqVars, getVars, oldVars, evVars, busVars, probe>>

(***************************************************************************)
(* Timer and the pure functions of RateLimiter.                            *)
(***************************************************************************)
\* RateLimiter.started
started_Never == FALSE
started == task # "none"

\* The replenish task runs: it was created, not cancelled by stop(), and has
\* not ended with an exception.
Running_Always == TRUE
Running == task = "alive"

\* RateLimiter.get_counter: int(time // period)
get_counter == now \div Period

\* RateLimiter.get_backoff: period - reltime % period.  Time is in whole
\* seconds here, so rounding up with math.ceil changes nothing.
get_backoff(reltime) == Period - (reltime % Period)

\* math.ceil of a time of x clock readings: the whole seconds at or above it.
Ceil_Down(x) == (x \div TicksPerUnit) * TicksPerUnit
Ceil(x) == ((x + TicksPerUnit - 1) \div TicksPerUnit) * TicksPerUnit

\* `reltime = reltime or self._timer.time()`: the clock is read when the
\* argument is None (<<>>) and also when it is 0.
RelTime(reltime, time) == IF reltime = <<>> \/ reltime[1] = 0 THEN time ELSE reltime[1]

\* RateLimiter.get_counter of a limiter of the given period, the clock
\* reading time: int(time // period).
GetCounter(period, time) == time \div period

\* RateLimiter.get_backoff(ceil, reltime) of a limiter of the given period,
\* the clock reading time.  Times are counted in clock readings, of which
\* TicksPerUnit make a second.
GetBackoff_Elapsed(period, ceil, reltime, time) ==
    LET backoff == RelTime(reltime, time) % period
    IN  IF ceil THEN Ceil(backoff) ELSE backoff
GetBackoff(period, ceil, reltime, time) ==
    LET backoff == period - (RelTime(reltime, time) % period)
    IN  IF ceil THEN Ceil(backoff) ELSE backoff

\* No call of get_counter() or get_backoff() is being looked at.
NoProbe == [period |-> 1, time |-> 0, ceil |-> FALSE, reltime |-> <<>>,
            st |-> "none", counter |-> 0, backoff |-> 0]

\* The comparison of replenish(): a release is freed only if it was
\* scheduled in an earlier count.
Eligible_SameCount(ct) == ct <= get_counter
Eligible_CountAfter(ct) == ct + 1 < get_counter
Eligible(ct) == ct < get_counter

\* asyncio.Semaphore.acquire: `while self._value <= 0` decides to wait.
MustWait_Never(v) == FALSE
MustWait(v) == v <= 0

\* asyncio.BoundedSemaphore.release: `if self._value >= self._bound_value`
\* raises ValueError.
Full_Unbounded(v) == FALSE
Full(v) == v >= bound_value

\* One pass of `while self._value <= 0: wait; self._value -= 1` by task t,
\* from value v and waiter queue w.
SemTry(t, v, w) ==
    IF MustWait(v)
    THEN [value |-> v, waiters |-> Append(w, t), got |-> FALSE]
    ELSE [value |-> v - 1, waiters |-> w, got |-> TRUE]

\* The inner loop of replenish(): pop the head while it is eligible and give
\* it back with BoundedSemaphore.release(), which wakes the first waiter.
\* s = [value, waiters, releases, woken, error].
RECURSIVE Drain(_)
Drain(s) ==
    IF s.releases = <<>> \/ ~Eligible(Head(s.releases)[2])
    THEN s
    ELSE IF Full(s.value)
         THEN [s EXCEPT !.releases = Tail(s.releases), !.error = TRUE]
         ELSE Drain([value |-> s.value + 1,
                     waiters |-> IF s.waiters = <<>> THEN <<>> ELSE Tail(s.waiters),
                     releases |-> Tail(s.releases),
                     woken |-> IF s.waiters = <<>> THEN s.woken
                               ELSE s.woken \cup {Head(s.waiters)},
                     error |-> FALSE])

\* RateLimiter.release: append (time, counter); the count is not touched.
Released_Twice(q) == Append(Append(q, <<now, get_counter>>), <<now, get_counter>>)
Released_Stale(q) == Append(q, <<now, get_counter - 1>>)
Released(q) == Append(q, <<now, get_counter>>)

\* No replaced limiter: the slot of the limiter set_rate_limit replaced, empty.
NoLimiter == [exists |-> FALSE, bound_value |-> 0, value |-> 0, waiters |-> <<>>,
              releases |-> <<>>, task |-> "none", wake |-> 0]

(***************************************************************************)
(* The name of the event request() emits.                                  *)
(***************************************************************************)
\* Paths of the urls requested: "/fred/series", "/fred/series/observations"
\* and, with a slash at the end, "/fred/series/".
DefaultPath == <<"/", "fred", "/", "series">>
Paths == {DefaultPath,
          <<"/", "fred", "/", "series", "/", "observations">>,
          <<"/", "fred", "/", "series", "/">>}

\* str.split("/"): the pieces between the slashes, the empty ones included.
RECURSIVE PySplit(_)
PySplit(p) ==
    IF p = <<>> THEN << <<>> >>
    ELSE LET rest == PySplit(Tail(p)) IN
         IF Head(p) = "/" THEN << <<>> >> \o rest
         ELSE << <<Head(p)>> \o Head(rest) >> \o Tail(rest)

\* response.url.path.split("/")[-1]
EventName_Parent(p) == PySplit(p)[Len(PySplit(p)) - 1]
EventName(p) == PySplit(p)[Len(PySplit(p))]

(***************************************************************************)
(* The pure parts of fredio/events.py.                                     *)
(***************************************************************************)
\* The names handlers are registered and events are produced under.
Names == {<<"series">>, <<"observations">>}

\* What a handler does when Event.apply awaits it: return without suspending
\* (a sync function wrapped by utils.coroutine, or a coroutine function that
\* awaits nothing), suspend and return later, or raise an Exception.  It is
\* the handler's own code that decides, at each call.
Kinds == {"sync", "async", "raises"}

\* cancel() is not running, and the outcome of its latest call is not a timeout.
NoCancel == [pc |-> "idle", timeout |-> FALSE, reported |-> FALSE]

\* cancel() has ended after `except asyncio.TimeoutError as e:
\* logger.exception(e)`.
TimedOut_Silent == NoCancel
TimedOut == [pc |-> "idle", timeout |-> FALSE, reported |-> TRUE]

\* Queue.put_nowait: the item goes to the tail.
Put_AtHead(q, item) == <<item>> \o q
Put(q, item) == Append(q, item)

\* Queue.task_done: one unfinished task fewer.
task_done_Skipped(u) == u
task_done(u) == u - 1

\* task_done() called k times.
RECURSIVE DoneTimes(_, _)
DoneTimes(u, k) == IF k = 0 THEN u ELSE DoneTimes(task_done(u), k - 1)

\* Queue.join returns: `if self._unfinished_tasks > 0` is false, or
\* task_done() has set _finished.
Drained_Always(u) == TRUE
Drained(u) == u = 0

(***************************************************************************)
(* Observation of returned acquire() calls.                                *)
(***************************************************************************)
Logged(w) == [w EXCEPT ![1] = @ + 1]
Shifted(w) == <<0>> \o SubSeq(w, 1, Len(w) - 1)

RECURSIVE SumSeq(_)
SumSeq(s) == IF s = <<>> THEN 0 ELSE Head(s) + SumSeq(Tail(s))

\* returned acquire() calls in the last Period seconds
RollingAcq == SumSeq(acqWin)
\* returned acquire() calls in the current count
CountAcq == SumSeq(SubSeq(acqWin, 1, (now % Period) + 1))

(***************************************************************************)
(* The limiter on its own: tasks doing `async with ratelimiter: ...`.      *)
(***************************************************************************)
InitState ==
    /\ now = 0
    /\ bound_value \in 1..MaxCapacity
    /\ value = bound_value
    /\ waiters = <<>>
    /\ releases = <<>>
    /\ task = "alive"
    /\ loops = 1
    /\ wake = 0
    /\ extra = 0
    /\ pc = [t \in Tasks |-> "idle"]
    /\ held = [t \in Tasks |-> FALSE]
    /\ acqWin = [i \in 1..Period |-> 0]
    /\ retries = [t \in Tasks |-> 0]
    /\ attempts = [t \in Tasks |-> 0]
    /\ twake = [t \in Tasks |-> 0]
    /\ r0 = [t \in Tasks |-> 0]
    /\ calls = [t \in Tasks |-> 0]
    /\ n429 = [t \in Tasks |-> 0]
    /\ last = [t \in Tasks |-> None]
    /\ gpc = "idle"
    /\ meta = Absent
    /\ url = [t \in Tasks |-> <<>>]
    /\ results = <<>>
    /\ finished = <<>>
    /\ old = NoLimiter
    /\ on = [t \in Tasks |-> "cur"]
    /\ listening = FALSE
    /\ queue = <<>>
    /\ path = [t \in Tasks |-> DefaultPath]
    /\ unfinished = 0
    /\ handlers = [n \in Names |-> 0]
    /\ frozen = [n \in Names |-> FALSE]
    /\ applying = <<>>
    /\ delivered = [e \in 1..MaxEvents |-> 0]
    /\ consumers = 0
    /\ canc = NoCancel
    /\ abandoned = {}
    /\ produced = 0

Init == InitState /\ probe = NoProbe

\* The clock advances.
Tick ==
    /\ now < MaxTime
    /\ now' = now + 1
    /\ acqWin' = Shifted(acqWin)
    /\ UNCHANGED <<limVars, taskVars, reqVars, getVars, oldVars, evVars, busVars, probe>>

\* acquire() is called by a task, or a woken waiter runs its loop again.
Acquire(t) ==
    /\ pc[t] \in {"idle", "woken"}
    /\ LET r == SemTry(t, value, waiters) IN
        /\ value' = r.value
        /\ waiters' = r.waiters
        /\ pc' = [pc EXCEPT ![t] = IF r.got THEN "in" ELSE "waiting"]
        /\ held' = [held EXCEPT ![t] = r.got]
        /\ acqWin' = IF r.got THEN Logged(acqWin) ELSE acqWin
    /\ UNCHANGED <<now, bound_value, releases, task, loops, wake, extra, reqVars, getVars, oldVars, evVars, busVars, probe>>

\* The body of `async with` ends: __aexit__ calls RateLimiter.release().
Release(t) ==
    /\ pc[t] = "in"
    /\ releases' = Released(releases)
    /\ pc' = [pc EXCEPT ![t] = "idle"]
    /\ held' = [held EXCEPT ![t] = FALSE]
    /\ UNCHANGED <<now, bound_value, value, waiters, task, loops, wake, extra, acqWin, reqVars, getVars, oldVars, evVars, busVars, probe>>

\* release() called by code that holds no permit.
ExtraRelease ==
    /\ extra < MaxExtra
    /\ extra' = extra + 1
    /\ releases' = Released(releases)
    /\ UNCHANGED <<now, bound_value, value, waiters, task, loops, wake, taskVars, acqWin, reqVars, getVars, oldVars, evVars, busVars, probe>>

\* RateLimiter.start
Start ==
    /\ IF ~started
       THEN task' = "alive" /\ loops' = loops + 1 /\ wake' = now
       ELSE UNCHANGED <<task, loops, wake>>
    /\ UNCHANGED <<now, bound_value, value, waiters, releases, extra, taskVars, acqWin, reqVars, getVars, oldVars, evVars, busVars, probe>>

\* RateLimiter.stop
Stop ==
    /\ IF started
       THEN /\ task' = "none"
            /\ loops' = IF Running THEN loops - 1 ELSE loops
            /\ wake' = 0
       ELSE UNCHANGED <<task, loops, wake>>
    /\ UNCHANGED <<now, bound_value, value, waiters, releases, extra, taskVars, acqWin, reqVars, getVars, oldVars, evVars, busVars, probe>>

\* One pass of the replenish task: the inner loop, then sleep to the next count.
Replenish ==
    /\ Running
    /\ now >= wake
    /\ LET s == Drain([value |-> value, waiters |-> waiters, releases |-> releases,
                       woken |-> {}, error |-> FALSE]) IN
        /\ value' = s.value
        /\ waiters' = s.waiters
        /\ releases' = s.releases
        /\ pc' = [t \in Tasks |-> IF t \in s.woken THEN "woken" ELSE pc[t]]
        /\ task' = IF s.error THEN "dead" ELSE task
        /\ loops' = IF s.error THEN loops - 1 ELSE loops
        /\ wake' = IF s.error THEN 0 ELSE now + get_backoff(now)
    /\ UNCHANGED <<now, bound_value, extra, held, acqWin, reqVars, getVars, oldVars, evVars, busVars, probe>>

NextLimiter ==
    \/ Tick
    \/ \E t \in Callers : Acquire(t)
    \/ \E t \in Callers : Release(t)
    \/ ExtraRelease
    \/ Start
    \/ Stop
    \/ Replenish

SpecLimiter == Init /\ [][NextLimiter]_vars

(***************************************************************************)
(* The limiter with its loop on time: `await asyncio.sleep(backoff)` of     *)
(* replenish() ends when the backoff has elapsed, so the loop makes its     *)
(* pass before the clock moves past the end of its sleep.  The loop is      *)
(* never stopped here.                                                      *)
(***************************************************************************)
\* The sleep of the replenish task is over and its pass is due.
Due == Running /\ wake <= now

TimedTick ==
    /\ ~Due
    /\ Tick

NextTimed ==
    \/ TimedTick
    \/ \E t \in Callers : Acquire(t)
    \/ \E t \in Callers : Release(t)
    \/ Replenish

SpecTimed == Init /\ [][NextTimed]_vars

(***************************************************************************)
(* The limiter over unbounded time.  The code reads the clock only as       *)
(* time % period (get_backoff), as the difference between a recorded count  *)
(* and the current one (replenish) and as the end of a sleep against the    *)
(* current time, so the clock is kept in 0 .. 2 * Period - 1: when it       *)
(* would reach 2 * Period every time and count in the state is moved back   *)
(* by one period.  Counts and times older than that stay at -1: they are    *)
(* before the current count whatever comes.                                 *)
(***************************************************************************)
Back(x, by) == IF x - by < -1 THEN -1 ELSE x - by

\* The clock advances, once every woken waiter has run: a task whose future
\* got its result is run by the event loop in its next iteration.
CyclicTick ==
    /\ \A t \in Callers : pc[t] # "woken"
    /\ IF now + 1 < 2 * Period
       THEN /\ now' = now + 1
            /\ UNCHANGED <<releases, wake>>
       ELSE /\ now' = now + 1 - Period
            /\ releases' = [i \in 1..Len(releases) |->
                               <<Back(releases[i][1], Period), Back(releases[i][2], 1)>>]
            /\ wake' = IF wake - Period < 0 THEN 0 ELSE wake - Period
    /\ acqWin' = Shifted(acqWin)
    /\ UNCHANGED <<bound_value, value, waiters, task, loops, extra, taskVars, reqVars,
                   getVars, oldVars, evVars, busVars, probe>>

\* A waiter woken by the replenish task runs its loop again.
Rerun(t) == pc[t] = "woken" /\ Acquire(t)

NextLive ==
    \/ CyclicTick
    \/ \E t \in Callers : Acquire(t)
    \/ \E t \in Callers : Release(t)
    \/ Replenish

\* The event loop runs every callback that is ready: the clock advances, the
\* replenish task makes its pass when its sleep is over, a woken waiter runs
\* again, and every holder leaves its `async with` block.
FairLive ==
    /\ WF_vars(CyclicTick)
    /\ WF_vars(Replenish)
    /\ \A t \in Callers : WF_vars(Rerun(t)) /\ WF_vars(Release(t))

SpecLive == Init /\ [][NextLive]_vars /\ FairLive

(***************************************************************************)
(* The limiter replaced while tasks use it.  A task keeps the instance it   *)
(* called acquire() on: `async with` evaluates the limiter once and its     *)
(* __aexit__ releases on the same object.  Time is kept as in SpecLive.     *)
(***************************************************************************)
\* The tasks that use the limiter when it is replaced stay on the old one.
Moved == [t \in Tasks |-> IF pc[t] \in {"waiting", "woken", "in"} THEN "old" ELSE "cur"]

\* RateLimiter(limit): a new limiter, whose constructor starts its loop.
NewLimiter(limit) ==
    /\ bound_value' = limit
    /\ value' = limit
    /\ waiters' = <<>>
    /\ releases' = <<>>
    /\ task' = "alive"
    /\ loops' = 1
    /\ wake' = now

\* locks.set_rate_limit(limit): stop() the global limiter, make a new one
\* and start() it (which the constructor has done already).
LocksSetRateLimit(limit) ==
    /\ ~old.exists
    /\ old' = [exists |-> TRUE, bound_value |-> bound_value, value |-> value,
               waiters |-> waiters, releases |-> releases,
               task |-> "none", wake |-> 0]
    /\ on' = Moved
    /\ NewLimiter(limit)
    /\ UNCHANGED <<now, extra, taskVars, acqWin, reqVars, getVars, evVars, busVars, probe>>

\* ApiClient.set_rate_limit(limit): the class attribute is bound to a new
\* limiter; the old one is not stopped.
ClientSetRateLimit(limit) ==
    /\ ~old.exists
    /\ old' = [exists |-> TRUE, bound_value |-> bound_value, value |-> value,
               waiters |-> waiters, releases |-> releases,
               task |-> task, wake |-> wake]
    /\ on' = Moved
    /\ NewLimiter(limit)
    /\ UNCHANGED <<now, extra, taskVars, acqWin, reqVars, getVars, evVars, busVars, probe>>

\* The inner loop of replenish() on the replaced limiter.
RECURSIVE OldDrain(_)
OldDrain(s) ==
    IF s.releases = <<>> \/ ~Eligible(Head(s.releases)[2])
    THEN s
    ELSE IF s.value >= old.bound_value
         THEN [s EXCEPT !.releases = Tail(s.releases), !.error = TRUE]
         ELSE OldDrain([value |-> s.value + 1,
                        waiters |-> IF s.waiters = <<>> THEN <<>> ELSE Tail(s.waiters),
                        releases |-> Tail(s.releases),
                        woken |-> IF s.waiters = <<>> THEN s.woken
                                  ELSE s.woken \cup {Head(s.waiters)},
                        error |-> FALSE])

\* One pass of the replenish task of the replaced limiter.
OldReplenish ==
    /\ old.exists /\ old.task = "alive"
    /\ now >= old.wake
    /\ LET s == OldDrain([value |-> old.value, waiters |-> old.waiters,
                          releases |-> old.releases, woken |-> {}, error |-> FALSE]) IN
        /\ old' = [old EXCEPT !.value = s.value, !.waiters = s.waiters,
                              !.releases = s.releases,
                              !.task = IF s.error THEN "dead" ELSE "alive",
                              !.wake = IF s.error THEN 0 ELSE now + get_backoff(now)]
        /\ pc' = [t \in Tasks |-> IF t \in s.woken THEN "woken" ELSE pc[t]]
    /\ UNCHANGED <<now, limVars, held, acqWin, reqVars, getVars, on, evVars, busVars, probe>>

\* A waiter of the replaced limiter, woken, runs its loop again.
OldRerun(t) ==
    /\ on[t] = "old" /\ pc[t] = "woken"
    /\ LET r == SemTry(t, old.value, old.waiters) IN
        /\ old' = [old EXCEPT !.value = r.value, !.waiters = r.waiters]
        /\ pc' = [pc EXCEPT ![t] = IF r.got THEN "in" ELSE "waiting"]
        /\ held' = [held EXCEPT ![t] = r.got]
    /\ UNCHANGED <<now, limVars, acqWin, reqVars, getVars, on, evVars, busVars, probe>>

\* A holder of a permit of the replaced limiter leaves its `async with`
\* block: release() on that limiter.  Its next acquire() will be on the new one.
OldRelease(t) ==
    /\ on[t] = "old" /\ pc[t] = "in"
    /\ old' = [old EXCEPT !.releases = Released(old.releases)]
    /\ pc' = [pc EXCEPT ![t] = "idle"]
    /\ held' = [held EXCEPT ![t] = FALSE]
    /\ on' = [on EXCEPT ![t] = "cur"]
    /\ UNCHANGED <<now, limVars, acqWin, reqVars, getVars, evVars, busVars, probe>>

\* The clock of SpecLive, for both limiters.
ReconfTick ==
    /\ \A t \in Callers : pc[t] # "woken"
    /\ IF now + 1 < 2 * Period
       THEN /\ now' = now + 1
            /\ UNCHANGED <<releases, wake, old>>
       ELSE /\ now' = now + 1 - Period
            /\ releases' = [i \in 1..Len(releases) |->
                               <<Back(releases[i][1], Period), Back(releases[i][2], 1)>>]
            /\ wake' = IF wake - Period < 0 THEN 0 ELSE wake - Period
            /\ old' = [old EXCEPT
                          !.releases = [i \in 1..Len(old.releases) |->
                                          <<Back(old.releases[i][1], Period),
                                            Back(old.releases[i][2], 1)>>],
                          !.wake = IF old.wake - Period < 0 THEN 0 ELSE old.wake - Period]
    /\ acqWin' = Shifted(acqWin)
    /\ UNCHANGED <<bound_value, value, waiters, task, loops, extra, taskVars, reqVars,
                   getVars, on, evVars, busVars, probe>>

\* acquire() and release() on the limiter that is current.
CurAcquire(t) == on[t] = "cur" /\ Acquire(t)
CurRelease(t) == on[t] = "cur" /\ Release(t)
CurRerun(t) == on[t] = "cur" /\ Rerun(t)

NextReconf ==
    \/ ReconfTick
    \/ \E t \in Callers : CurAcquire(t)
    \/ \E t \in Callers : CurRelease(t)
    \/ Replenish
    \/ \E limit \in 1..MaxCapacity : LocksSetRateLimit(limit)
    \/ \E limit \in 1..MaxCapacity : ClientSetRateLimit(limit)
    \/ OldReplenish
    \/ \E t \in Callers : OldRerun(t)
    \/ \E t \in Callers : OldRelease(t)

FairReconf ==
    /\ WF_vars(ReconfTick)
    /\ WF_vars(Replenish)
    /\ WF_vars(OldReplenish)
    /\ \A t \in Callers :
          /\ WF_vars(CurRerun(t)) /\ WF_vars(CurRelease(t))
          /\ WF_vars(OldRerun(t)) /\ WF_vars(OldRelease(t))

SpecReconf == Init /\ [][NextReconf]_vars /\ FairReconf

(***************************************************************************)
(* ApiClient.request of fredio/client.py.                                  *)
(***************************************************************************)
\* What one HTTP call can end with: a 2xx response, a 429 response, another
\* status raise_for_status() raises on, or an error raised by the transport.
Outcomes == {"ok", "429", "error", "transport"}

\* request() has ended.
Done(t) == pc[t] \in {"returned", "raised"}

\* `while retries >= 0` and `if retries >= 0`: another attempt is allowed.
CanRetry_Positive(r) == r > 0
CanRetry(r) == r >= 0

\* `async with self.ratelimiter` is entered by task t: acquire() returns at
\* once, and the HTTP call is issued, or the task waits for a permit.
Enter(t) ==
    LET r == SemTry(t, value, waiters) IN
        /\ value' = r.value
        /\ waiters' = r.waiters
        /\ pc' = [pc EXCEPT ![t] = IF r.got THEN "io" ELSE "waiting"]
        /\ held' = [held EXCEPT ![t] = r.got]
        /\ calls' = [calls EXCEPT ![t] = IF r.got THEN @ + 1 ELSE @]

\* request(method, url, retries=r) is called; from is the task's state before.
Request(t, r, from) ==
    /\ pc[t] = from
    /\ retries' = [retries EXCEPT ![t] = r]
    /\ r0' = [r0 EXCEPT ![t] = r]
    /\ IF CanRetry(r)
       THEN Enter(t)
       ELSE /\ pc' = [pc EXCEPT ![t] = "returned"]
            /\ UNCHANGED <<value, waiters, held, calls>>
    /\ UNCHANGED <<now, bound_value, releases, task, loops, wake, extra, acqWin,
                   attempts, twake, n429, last>>

\* request() called on its own.  Tasks are numbered in the order they call.
Call(t, r) ==
    /\ \A u \in 1..(t - 1) : pc[u] # "idle"
    /\ Request(t, r, "idle")
    /\ UNCHANGED <<getVars, oldVars, evVars, busVars, probe>>

\* A waiter woken by the replenish task runs `while self._value <= 0` again.
Resume(t) ==
    /\ pc[t] = "woken"
    /\ Enter(t)
    /\ UNCHANGED <<now, bound_value, releases, task, loops, wake, extra, acqWin,
                   retries, attempts, twake, r0, n429, last, getVars, oldVars, evVars, busVars, probe>>

\* The HTTP call of task t ends with outcome s.  The `async with` blocks are
\* left, which calls release(), unless _handle_exception sleeps first.
Response(t, s) ==
    /\ pc[t] = "io"
    /\ last' = [last EXCEPT ![t] = s]
    /\ n429' = [n429 EXCEPT ![t] = IF s = "429" THEN @ + 1 ELSE @]
    /\ LET left == IF s \in {"429", "error"} THEN retries[t] - 1 ELSE retries[t]
           sleeps == s = "429" /\ CanRetry(left)
       IN  /\ retries' = [retries EXCEPT ![t] = left]
           /\ IF sleeps
              THEN \* the Date header of the response carries the time now
                   /\ pc' = [pc EXCEPT ![t] = "backoff"]
                   /\ twake' = [twake EXCEPT ![t] = now + get_backoff(now)]
                   /\ UNCHANGED <<releases, held, finished>>
              ELSE /\ pc' = [pc EXCEPT ![t] = IF s = "ok" THEN "returned" ELSE "raised"]
                   /\ releases' = Released(releases)
                   /\ held' = [held EXCEPT ![t] = FALSE]
                   /\ finished' = IF gpc = "gather" THEN Append(finished, t) ELSE finished
                   /\ UNCHANGED twake
    /\ IF s = "ok" /\ listening
       THEN /\ queue' = Put(queue, <<EventName(path[t]), t>>)
            /\ unfinished' = unfinished + 1
            /\ produced' = produced + 1
       ELSE UNCHANGED <<queue, unfinished, produced>>
    /\ UNCHANGED <<now, bound_value, value, waiters, task, loops, wake, extra, acqWin,
                   attempts, r0, calls, gpc, meta, url, results, oldVars, listening, path,
                   handlers, frozen, applying, delivered, consumers, canc, abandoned, probe>>

\* The backoff sleep of task t is over: the `async with` block is left, which
\* calls release(), and the loop enters it again.
BackoffDone(t) ==
    /\ pc[t] = "backoff"
    /\ now >= twake[t]
    /\ releases' = Released(releases)
    /\ Enter(t)
    /\ twake' = [twake EXCEPT ![t] = 0]
    /\ UNCHANGED <<now, bound_value, task, loops, wake, extra, acqWin,
                   retries, attempts, r0, n429, last, getVars, oldVars, evVars, busVars, probe>>

NextRequest ==
    \/ Tick
    \/ Replenish
    \/ \E t \in Callers, r \in 0..MaxRetries : Call(t, r)
    \/ \E t \in Callers : Resume(t)
    \/ \E t \in Callers, s \in Outcomes : Response(t, s)
    \/ \E t \in Callers : BackoffDone(t)

SpecRequest == Init /\ [][NextRequest]_vars

\* The elements of sequence q.
Range(q) == {q[i] : i \in 1..Len(q)}

\* Sequence q without the element t.
Without(q, t) == SelectSeq(q, LAMBDA x : x # t)

\* The task awaiting request() is cancelled: CancelledError is raised at the
\* await the coroutine is suspended in.  In acquire() the waiter's future is
\* cancelled and no permit is taken; if the future had its result already,
\* `if self._value > 0 and not fut.cancelled()` passes the wake-up on to the
\* next waiter.  Inside the `async with` block (the HTTP call, the backoff
\* sleep) the error leaves the block through __aexit__, which calls release().
Cancel(t) ==
    /\ pc[t] \in {"waiting", "woken", "io", "backoff"}
    /\ Cardinality({u \in Tasks : pc[u] = "cancelled"}) < MaxCancels
    /\ pc' = [u \in Tasks |->
                IF u = t THEN "cancelled"
                ELSE IF pc[t] = "woken" /\ value > 0 /\ waiters # <<>> /\ u = Head(waiters)
                     THEN "woken"
                     ELSE pc[u]]
    /\ waiters' = IF pc[t] = "waiting" THEN Without(waiters, t)
                  ELSE IF pc[t] = "woken" /\ value > 0 /\ waiters # <<>>
                       THEN Tail(waiters)
                       ELSE waiters
    /\ releases' = IF held[t] THEN Released(releases) ELSE releases
    /\ held' = [held EXCEPT ![t] = FALSE]
    /\ twake' = [twake EXCEPT ![t] = 0]
    /\ UNCHANGED <<now, bound_value, value, task, loops, wake, extra, acqWin,
                   retries, attempts, r0, calls, n429, last, getVars, oldVars, evVars, busVars, probe>>

\* request() is called without retries or with the most, and any awaiting
\* task may be cancelled.
NextCancel ==
    \/ Tick
    \/ Replenish
    \/ \E t \in Callers, r \in {0, MaxRetries} : Call(t, r)
    \/ \E t \in Callers : Resume(t)
    \/ \E t \in Callers, s \in Outcomes : Response(t, s)
    \/ \E t \in Callers : BackoffDone(t)
    \/ \E t \in Callers : Cancel(t)

SpecCancel == Init /\ [][NextCancel]_vars

(***************************************************************************)
(* request() with the event consumer of fredio/events.py switched on and   *)
(* off.                                                                    *)
(***************************************************************************)
\* request(method, url, retries=r) for a url with path p.
CallUrl(t, r, p) ==
    /\ \A u \in 1..(t - 1) : pc[u] # "idle"
    /\ Request(t, r, "idle")
    /\ path' = [path EXCEPT ![t] = p]
    /\ UNCHANGED <<getVars, oldVars, listening, queue, busVars, probe>>

\* events.running(): _task is a task that is not done.
running_Never == FALSE
running == listening

\* events.listen(): unless the consumer runs, every Event is frozen and the
\* consumer task is created.  (An Event exists for the names with handlers.)
Listen ==
    /\ IF ~running
       THEN /\ frozen' = [n \in Names |-> frozen[n] \/ handlers[n] > 0]
            /\ listening' = TRUE
            /\ consumers' = consumers + 1
       ELSE UNCHANGED <<frozen, listening, consumers>>
    /\ UNCHANGED <<now, limVars, taskVars, acqWin, reqVars, getVars, oldVars, queue, path,
                   unfinished, handlers, applying, delivered, canc, abandoned, produced, probe>>

\* The consumer task is cancelled where it waits (cancel_running_tasks(), or
\* an events.cancel() with nothing to flush).
StopListening ==
    /\ listening' = FALSE
    /\ consumers' = IF running THEN consumers - 1 ELSE consumers
    /\ UNCHANGED <<now, limVars, taskVars, acqWin, reqVars, getVars, oldVars, queue, path,
                   unfinished, handlers, frozen, applying, delivered, canc, abandoned,
                   produced, probe>>

NextEvents ==
    \/ Tick
    \/ Replenish
    \/ \E t \in Emitters, r \in {0, MaxRetries}, p \in Paths : CallUrl(t, r, p)
    \/ \E t \in Emitters : Resume(t)
    \/ \E t \in Emitters, s \in Outcomes : Response(t, s)
    \/ \E t \in Emitters : BackoffDone(t)
    \/ Listen
    \/ StopListening

SpecEvents == Init /\ [][NextEvents]_vars

(***************************************************************************)
(* The event bus of fredio/events.py on its own: register(), listen(),     *)
(* produce(), the consumer task, the tasks that run Event.apply, and       *)
(* cancel().  Every action is one step of a task between two awaits.       *)
(* cancel() is awaited by one caller at a time.                            *)
(***************************************************************************)
\* `if name in _events`
Matched(n) == handlers[n] > 0

\* The number of handlers registered.
RECURSIVE TotalHandlers(_)
TotalHandlers(ns) ==
    IF ns = {} THEN 0
    ELSE LET n == CHOOSE x \in ns : TRUE IN handlers[n] + TotalHandlers(ns \ {n})

\* Event.add: `if self._frozen` raises RuntimeError.
IsFrozen_Never(n) == FALSE
IsFrozen(n) == frozen[n]

\* register(name, fn) and on_event(name)(fn):
\* _events.setdefault(name, Event(name)).add(fn).  A name without an Event
\* gets a new one, which is not frozen; add() on a frozen Event raises
\* RuntimeError and changes nothing.
Register(n) ==
    /\ TotalHandlers(Names) < MaxHandlers
    /\ IF ~Matched(n)
       THEN /\ handlers' = [handlers EXCEPT ![n] = 1]
            /\ frozen' = [frozen EXCEPT ![n] = FALSE]
       ELSE IF IsFrozen(n)
            THEN UNCHANGED <<handlers, frozen>>
            ELSE /\ handlers' = [handlers EXCEPT ![n] = @ + 1]
                 /\ UNCHANGED frozen
    /\ UNCHANGED <<now, limVars, taskVars, acqWin, reqVars, getVars, oldVars, evVars,
                   unfinished, applying, delivered, consumers, canc, abandoned, produced, probe>>

\* produce(name, data): q.put((name, data)) on the unbounded queue, which
\* does not suspend.  The data is the serial number of the event.
Produce(n) ==
    /\ produced < MaxEvents
    /\ produced' = produced + 1
    /\ queue' = Put(queue, <<n, produced + 1>>)
    /\ unfinished' = unfinished + 1
    /\ UNCHANGED <<now, limVars, taskVars, acqWin, reqVars, getVars, oldVars, listening,
                   path, handlers, frozen, applying, delivered, consumers, canc, abandoned, probe>>

\* The tasks consume() makes for the items of q, in order: one for each item
\* whose name has an Event.
RECURSIVE Spawned(_)
Spawned(q) ==
    IF q = <<>> THEN <<>>
    ELSE (IF Matched(Head(q)[1])
          THEN <<[id |-> Head(q)[2], name |-> Head(q)[1], next |-> 1, st |-> "new"]>>
          ELSE <<>>) \o Spawned(Tail(q))

\* join() of a cancel() that is flushing is woken when task_done() brings the
\* unfinished tasks to 0.
Woken(c, u) == IF c.pc = "flushing" /\ Drained(u) THEN [c EXCEPT !.pc = "drained"] ELSE c

\* One step of the consumer task: `while True: await consume(queue)`.
\* q.get() suspends only on an empty queue, so the step takes every item
\* there is: a task running Event.apply is made for an item whose name has an
\* Event, and task_done() is called at once for any other.
Consume ==
    /\ running
    /\ queue # <<>>
    /\ queue' = <<>>
    /\ applying' = applying \o Spawned(queue)
    /\ unfinished' = DoneTimes(unfinished, Len(queue) - Len(Spawned(queue)))
    /\ canc' = Woken(canc, unfinished')
    /\ UNCHANGED <<now, limVars, taskVars, acqWin, reqVars, getVars, oldVars, listening,
                   path, handlers, frozen, delivered, consumers, abandoned, produced, probe>>

\* Sequence q without its k-th element.
Dropped(q, k) == SubSeq(q, 1, k - 1) \o SubSeq(q, k + 1, Len(q))

\* One step of the k-th task running Event.apply: `for handler in
\* self._handlers: await handler(...)` calls the handlers from the next one
\* up to handler number stop: those before it return without suspending, and
\* that one suspends (how = "async"), raises (how = "raises": `except
\* Exception` around the loop logs it, and apply() ends) or, being the last
\* of the list, returns too (how = "sync").  A task that was suspended in the
\* last handler just ends (stop = its number).  When the task ends its done
\* callback calls task_done().  The event loop runs new tasks in the order
\* they were made.
ApplyStep(k, stop, how) ==
    /\ k \in 1..Len(applying)
    /\ applying[k].st = "new" => \A m \in 1..(k - 1) : applying[m].st # "new"
    /\ LET a == applying[k]
           n == handlers[a.name]
       IN  /\ IF a.next > n
              THEN stop = n /\ how = "sync"
              ELSE stop \in a.next..n /\ (how = "sync" => stop = n)
           /\ delivered' = [delivered EXCEPT ![a.id] = stop]
           /\ IF how = "async" /\ a.next <= n
              THEN /\ applying' = [applying EXCEPT ![k] = [a EXCEPT !.next = stop + 1,
                                                                   !.st = "suspended"]]
                   /\ UNCHANGED <<unfinished, canc>>
              ELSE /\ applying' = Dropped(applying, k)
                   /\ unfinished' = task_done(unfinished)
                   /\ canc' = Woken(canc, unfinished')
    /\ UNCHANGED <<now, limVars, taskVars, acqWin, reqVars, getVars, oldVars, evVars,
                   handlers, frozen, consumers, abandoned, produced, probe>>

\* The serial numbers of the events on the queue.
QueueIds == {queue[i][2] : i \in 1..Len(queue)}

\* cancel(timeout) is called, with a timeout (tmo) or with None.  Nothing is
\* done unless the consumer runs.  flush() awaits queue.join(): with nothing
\* unfinished and no timeout it returns without suspending, and the consumer
\* task is cancelled in the same step.
CancelCall(tmo) ==
    /\ canc.pc = "idle"
    /\ IF running
       THEN IF Drained(unfinished) /\ ~tmo
            THEN /\ listening' = FALSE
                 /\ consumers' = consumers - 1
                 /\ canc' = NoCancel
            ELSE /\ canc' = [pc |-> IF Drained(unfinished) THEN "drained" ELSE "flushing",
                            timeout |-> tmo, reported |-> FALSE]
                 /\ UNCHANGED <<listening, consumers>>
       ELSE UNCHANGED <<listening, consumers, canc>>
    /\ UNCHANGED <<now, limVars, taskVars, acqWin, reqVars, getVars, oldVars, queue, path,
                   unfinished, handlers, frozen, applying, delivered, abandoned, produced, probe>>

\* join() has returned: cancel() goes on to `finally: _task.cancel();
\* _task = None` and returns.
FlushDone ==
    /\ canc.pc = "drained"
    /\ listening' = FALSE
    /\ consumers' = consumers - 1
    /\ canc' = NoCancel
    /\ UNCHANGED <<now, limVars, taskVars, acqWin, reqVars, getVars, oldVars, queue, path,
                   unfinished, handlers, frozen, applying, delivered, abandoned, produced, probe>>

\* The timeout of wait_for() expires before join() has returned: TimeoutError
\* is caught and logged, then `finally: _task.cancel(); _task = None`.  The
\* queue and the tasks running Event.apply are left as they are.
FlushTimeout ==
    /\ canc.pc \in {"flushing", "drained"}
    /\ canc.timeout
    /\ listening' = FALSE
    /\ consumers' = consumers - 1
    /\ canc' = TimedOut
    /\ abandoned' = abandoned \cup QueueIds
    /\ UNCHANGED <<now, limVars, taskVars, acqWin, reqVars, getVars, oldVars, queue, path,
                   unfinished, handlers, frozen, applying, delivered, produced, probe>>

NextBus ==
    \/ \E n \in Names : Register(n)
    \/ Listen
    \/ \E n \in Names : Produce(n)
    \/ Consume
    \/ \E k \in 1..MaxEvents, stop \in 1..MaxHandlers, how \in Kinds : ApplyStep(k, stop, how)
    \/ \E tmo \in BOOLEAN : CancelCall(tmo)
    \/ FlushDone
    \/ FlushTimeout

\* The limiter plays no part here: it is the one of the largest limit.
InitBus == Init /\ bound_value = MaxCapacity

SpecBus == InitBus /\ [][NextBus]_vars

\* The event loop runs every task that is ready: the consumer when the queue
\* has items, and a task running Event.apply that was just made.  Nothing is
\* assumed of a handler that has suspended: it may never return.
Step(k) == \E stop \in 1..MaxHandlers, how \in Kinds : ApplyStep(k, stop, how)
FirstStep(k) == k \in 1..Len(applying) /\ applying[k].st = "new" /\ Step(k)

FairBus ==
    /\ WF_vars(Consume)
    /\ \A k \in 1..MaxEvents : WF_vars(FirstStep(k))

SpecBusLive == SpecBus /\ FairBus

(***************************************************************************)
(* get_counter() and get_backoff() on their own: a limiter of some period  *)
(* whose clock shows some time is asked for its count, then for its        *)
(* backoff, and the caller sleeps for the backoff, as replenish() does.    *)
(***************************************************************************)
\* The periods tried, in clock readings: short ones, whole seconds or not,
\* and the default one.
Periods == (1..MaxPeriod) \cup {FRED_API_RATE_RESET * TicksPerUnit}

\* The reltime arguments tried: None, or a time.
RelTimes == {<<>>} \cup {<<r>> : r \in 0..MaxPeriod}

\* The clock readings tried for a period: two periods and the start of the
\* third.
Readings(period) == 0..(2 * period)

InitClock ==
    /\ InitState
    /\ bound_value = MaxCapacity
    /\ \E period \in Periods, ceil \in BOOLEAN, reltime \in RelTimes :
          \E time \in Readings(period) :
             probe = [period |-> period, time |-> time, ceil |-> ceil,
                      reltime |-> reltime, st |-> "args", counter |-> 0, backoff |-> 0]

clockFrame == <<now, limVars, taskVars, acqWin, reqVars, getVars, oldVars, evVars, busVars>>

\* counter = limiter.get_counter()
CallGetCounter ==
    /\ probe.st = "args"
    /\ probe' = [probe EXCEPT !.counter = GetCounter(probe.period, probe.time),
                              !.st = "counted"]
    /\ UNCHANGED clockFrame

\* backoff = limiter.get_backoff(ceil, reltime)
CallGetBackoff ==
    /\ probe.st = "counted"
    /\ probe' = [probe EXCEPT !.backoff = GetBackoff(probe.period, probe.ceil,
                                                     probe.reltime, probe.time),
                              !.st = "backoff"]
    /\ UNCHANGED clockFrame

\* await asyncio.sleep(backoff): the clock shows backoff more.
Sleep ==
    /\ probe.st = "backoff"
    /\ probe' = [probe EXCEPT !.time = probe.time + probe.backoff, !.st = "slept"]
    /\ UNCHANGED clockFrame

NextClock ==
    \/ CallGetCounter
    \/ CallGetBackoff
    \/ Sleep

SpecClock == InitClock /\ [][NextClock]_vars

(***************************************************************************)
(* Session._request of fredio/session.py: one permit for the whole loop.   *)
(***************************************************************************)
\* `while attempts <= retries`
SesLoop(a, r) == a <= r

\* ratelimiter.start(), then `async with ratelimiter`, attempts = 0 and the
\* first HTTP call.
SesEnter(t) ==
    LET r == SemTry(t, value, waiters) IN
        /\ value' = r.value
        /\ waiters' = r.waiters
        /\ pc' = [pc EXCEPT ![t] = IF r.got THEN "io" ELSE "waiting"]
        /\ held' = [held EXCEPT ![t] = r.got]
        /\ attempts' = [attempts EXCEPT ![t] = 0]
        /\ calls' = [calls EXCEPT ![t] = IF r.got THEN @ + 1 ELSE @]

SesRequest(t, r) ==
    /\ pc[t] = "idle"
    /\ \A u \in 1..(t - 1) : pc[u] # "idle"
    /\ retries' = [retries EXCEPT ![t] = r]
    /\ r0' = [r0 EXCEPT ![t] = r]
    /\ IF ~started
       THEN task' = "alive" /\ loops' = loops + 1 /\ wake' = now
       ELSE UNCHANGED <<task, loops, wake>>
    /\ SesEnter(t)
    /\ UNCHANGED <<now, bound_value, releases, extra, acqWin, twake, n429, last, getVars, oldVars, evVars, busVars, probe>>

SesResume(t) ==
    /\ pc[t] = "woken"
    /\ SesEnter(t)
    /\ UNCHANGED <<now, bound_value, releases, task, loops, wake, extra, acqWin,
                   retries, twake, r0, n429, last, getVars, oldVars, evVars, busVars, probe>>

\* The loop goes round after a failed attempt (a = the new attempts): the next
\* HTTP call, or the end of the loop, release() and RuntimeError.
SesAgain(t, a) ==
    IF SesLoop(a, retries[t])
    THEN /\ pc' = [pc EXCEPT ![t] = "io"]
         /\ calls' = [calls EXCEPT ![t] = @ + 1]
         /\ UNCHANGED <<releases, held>>
    ELSE /\ pc' = [pc EXCEPT ![t] = "raised"]
         /\ releases' = Released(releases)
         /\ held' = [held EXCEPT ![t] = FALSE]
         /\ UNCHANGED calls

\* The HTTP call of task t ends with outcome s.
SesResponse(t, s) ==
    /\ pc[t] = "io"
    /\ last' = [last EXCEPT ![t] = s]
    /\ n429' = [n429 EXCEPT ![t] = IF s = "429" THEN @ + 1 ELSE @]
    /\ CASE s \in {"ok", "transport"} ->
              /\ pc' = [pc EXCEPT ![t] = IF s = "ok" THEN "returned" ELSE "raised"]
              /\ releases' = Released(releases)
              /\ held' = [held EXCEPT ![t] = FALSE]
              /\ UNCHANGED <<attempts, calls, twake>>
         [] s = "429" ->
              /\ attempts' = [attempts EXCEPT ![t] = @ + 1]
              /\ pc' = [pc EXCEPT ![t] = "backoff"]
              /\ twake' = [twake EXCEPT ![t] = now + get_backoff(now)]
              /\ UNCHANGED <<releases, held, calls>>
         [] s = "error" ->
              /\ attempts' = [attempts EXCEPT ![t] = @ + 1]
              /\ SesAgain(t, attempts[t] + 1)
              /\ UNCHANGED twake
    /\ UNCHANGED <<now, bound_value, value, waiters, task, loops, wake, extra, acqWin,
                   retries, r0, getVars, oldVars, evVars, busVars, probe>>

\* The backoff sleep is over, with the permit still held.
SesBackoffDone(t) ==
    /\ pc[t] = "backoff"
    /\ now >= twake[t]
    /\ SesAgain(t, attempts[t])
    /\ twake' = [twake EXCEPT ![t] = 0]
    /\ UNCHANGED <<now, bound_value, value, waiters, task, loops, wake, extra, acqWin,
                   retries, attempts, r0, n429, last, getVars, oldVars, evVars, busVars, probe>>

NextSession ==
    \/ Tick
    \/ Replenish
    \/ \E t \in Callers, r \in 0..MaxRetries : SesRequest(t, r)
    \/ \E t \in Callers : SesResume(t)
    \/ \E t \in Callers, s \in Outcomes : SesResponse(t, s)
    \/ \E t \in Callers : SesBackoffDone(t)

SpecSession == Init /\ [][NextSession]_vars

(***************************************************************************)
(* ApiClient.get of fredio/client.py: the probe page, then one request per *)
(* further offset, awaited with asyncio.gather.                            *)
(***************************************************************************)
\* The page bodies the upstream can serve: without the three fields, or with
\* all of them.
Metas == {Absent} \cup [has : {TRUE}, count : 0..MaxCount, limit : 0..MaxLimit,
                         offset : 0..MaxOffset]

\* The page served for a request whose url has the offset parameter u (<<>>:
\* the probe's own url).
Page(u) == IF ~meta.has \/ u = <<>> THEN meta ELSE [meta EXCEPT !.offset = u[1]]

\* Python truth of page.get(k): None (no such field) and 0 are false.
Truthy(page, x) == page.has /\ x # 0

\* range(start, stop, step) of Python for step > 0, as a sequence.
RECURSIVE PyRange(_, _, _)
PyRange(start, stop, step) ==
    IF start >= stop THEN <<>>
    ELSE <<start>> \o PyRange(start + step, stop, step)

\* The first argument of range() in get(): limit + offset.
RangeStart_AtOffset(limit, offset) == offset
RangeStart(limit, offset) == limit + offset

\* The tasks gather() was given, in argument order.
Children == {t \in Tasks : url[t] # <<>>}

\* gather() ends normally when every child has returned.
ChildrenOK_Settled == \A t \in Children : Done(t)
ChildrenOK == \A t \in Children : pc[t] = "returned"

\* What gather() returns: the children's results in argument order.
GatherResults_ByCompletion == [i \in 1..Len(finished) |-> Page(url[finished[i]])]
GatherResults == [i \in 1..Cardinality(Children) |-> Page(url[i + 1])]

\* get(url, retries=r) is called and awaits the probe request; m is what the
\* upstream serves.
Get(m, r) ==
    /\ gpc = "idle"
    /\ gpc' = "probe"
    /\ meta' = m
    /\ Request(1, r, "idle")
    /\ UNCHANGED <<url, results, finished, oldVars, evVars, busVars, probe>>

\* The probe request raised: get() raises.
ProbeFailed ==
    /\ gpc = "probe"
    /\ pc[1] = "raised"
    /\ gpc' = "raised"
    /\ UNCHANGED <<now, limVars, taskVars, acqWin, reqVars, meta, url, results, finished,
                   oldVars, evVars, busVars, probe>>

\* The probe request returned: read count, limit and offset, and plan the
\* further requests.
GetPlan ==
    /\ gpc = "probe"
    /\ pc[1] = "returned"
    /\ results' = <<Page(<<>>)>>
    /\ LET page == Page(<<>>)
           count == page.count
           limit == page.limit
           offset == page.offset
       IN  IF Truthy(page, count) \/ Truthy(page, limit)
           THEN IF limit = 0
                THEN \* range() arg 3 must not be zero: ValueError
                     /\ gpc' = "raised"
                     /\ UNCHANGED <<pc, url>>
                ELSE LET coros == PyRange(RangeStart(limit, offset), count, limit) IN
                     /\ url' = [t \in Tasks |->
                                  IF t \in 2..(Len(coros) + 1) THEN <<coros[t - 1]>> ELSE url[t]]
                     /\ pc' = [t \in Tasks |->
                                  IF t \in 2..(Len(coros) + 1) THEN "created" ELSE pc[t]]
                     /\ gpc' = IF coros = <<>> THEN "returned" ELSE "gather"
           ELSE /\ gpc' = "returned"
                /\ UNCHANGED <<pc, url>>
    /\ UNCHANGED <<now, limVars, held, acqWin, reqVars, meta, finished, oldVars, evVars, busVars, probe>>

\* A task made by gather() starts running its request(); the event loop
\* starts them in the order gather() made them.
ChildStart(t) ==
    /\ \A u \in 2..(t - 1) : pc[u] # "created"
    /\ Request(t, r0[1], "created")
    /\ UNCHANGED <<getVars, oldVars, evVars, busVars, probe>>

\* gather() ends: get() extends results and returns.
GatherDone ==
    /\ gpc = "gather"
    /\ ChildrenOK
    /\ results' = results \o GatherResults
    /\ gpc' = "returned"
    /\ UNCHANGED <<now, limVars, taskVars, acqWin, reqVars, meta, url, finished,
                   oldVars, evVars, busVars, probe>>

\* A child raised: gather() raises its exception in get().
GatherFailed ==
    /\ gpc = "gather"
    /\ \E t \in Children : pc[t] = "raised"
    /\ gpc' = "raised"
    /\ UNCHANGED <<now, limVars, taskVars, acqWin, reqVars, meta, url, results, finished,
                   oldVars, evVars, busVars, probe>>

NextGet ==
    \/ Tick
    \/ Replenish
    \/ \E m \in Metas, r \in 0..MaxRetries : Get(m, r)
    \/ ProbeFailed
    \/ GetPlan
    \/ \E t \in Tasks : ChildStart(t)
    \/ \E t \in Tasks : Resume(t)
    \/ \E t \in Tasks, s \in Outcomes : Response(t, s)
    \/ \E t \in Tasks : BackoffDone(t)
    \/ GatherDone
    \/ GatherFailed

SpecGet == Init /\ [][NextGet]_vars

(***************************************************************************)
(* Properties of the limiter.                                              *)
(***************************************************************************)
\* C1: the free-permit count stays within 0..capacity in every reachable
\* state, and every step in which an acquire() returns starts from a count
\* of at least 1 and lowers it by exactly 1.
C1_PermitsBounded ==
    /\ [](value \in 0..bound_value)
    /\ [][\A t \in Tasks : (~held[t] /\ held'[t]) =>
            (value >= 1 /\ value' = value - 1)]_vars

\* C1 witness: acquire() has returned to every task it could, the count is 0
\* and another task is blocked in acquire().
C1_Witness ==
    /\ value = 0
    /\ Cardinality({t \in Tasks : held[t]}) = bound_value
    /\ \E t \in Tasks : pc[t] = "waiting"

\* C2: every entry the replenish loop takes off the pending queue was
\* recorded in a count strictly below the current one, and the free count
\* only grows by entries taken off that queue.
C2_NoSameCountFree ==
    [][/\ \A i \in 1..(Len(releases) - Len(releases')) :
              releases[i][2] < get_counter
       /\ value' > value =>
              Len(releases) - Len(releases') >= value' - value]_vars

\* C2 witness: the loop has made its pass for the current count (it sleeps),
\* and a release recorded in this count is still pending, its permit not free.
C2_Witness ==
    /\ task = "alive" /\ wake > now
    /\ get_counter >= 1
    /\ value < bound_value
    /\ \E i \in 1..Len(releases) : releases[i][2] = get_counter

\* C3 as stated: in any window of one period (the last Period seconds) at
\* most capacity acquire() calls return.
C3_RollingWindow == (extra = 0) => RollingAcq <= bound_value

\* C3 as amended: in any window of one period at most twice the capacity
\* acquire() calls return, when every release() follows an acquire().
C3_RollingWindowTwice == (extra = 0) => RollingAcq <= 2 * bound_value

\* C3 witness: a window of one period in which 2 * capacity acquire() calls
\* returned.
C3_Witness == extra = 0 /\ RollingAcq = 2 * bound_value

(***************************************************************************)
(* Properties of request().                                                *)
(***************************************************************************)
\* C4: a request() with retries = r whose every response is 429 ends raising
\* after exactly r + 1 HTTP calls; one whose first k <= r responses are 429
\* and whose next is 2xx ends returning after exactly k + 1 HTTP calls; and
\* no request() makes more than r + 1 HTTP calls.
C4_RetryCount ==
    \A t \in Callers :
        /\ calls[t] <= r0[t] + 1
        /\ (Done(t) /\ n429[t] = calls[t]) =>
               (pc[t] = "raised" /\ calls[t] = r0[t] + 1)
        /\ (Done(t) /\ last[t] = "ok") =>
               (pc[t] = "returned" /\ calls[t] = n429[t] + 1 /\ n429[t] <= r0[t])

\* C4 witness: a request() with retries = 2 has raised after three 429
\* responses, having made 3 HTTP calls.
C4_Witness ==
    \E t \in Callers :
        pc[t] = "raised" /\ r0[t] = 2 /\ n429[t] = 3 /\ calls[t] = 3

\* C5: an attempt that fails with anything but a 429 ends the request at
\* once: the error is raised, with no further HTTP call and no backoff sleep.
C5_OtherFailureIsFinal ==
    \A t \in Callers :
        last[t] \in {"error", "transport"} =>
            (pc[t] = "raised" /\ calls[t] = n429[t] + 1)

\* C6: a task that sleeps for the backoff after a 429 holds no permit: its
\* release() has been recorded before the sleep began.
C6_ReleasedBeforeSleep ==
    \A t \in Callers : pc[t] = "backoff" => ~held[t]

(***************************************************************************)
(* Properties of get().                                                    *)
(***************************************************************************)
\* The number of offsets offset + k * limit, k >= 1, below count.
NumOffsets(m) ==
    Cardinality({o \in 0..MaxCount :
                    \E k \in 1..MaxCount : o = m.offset + k * m.limit /\ o < m.count})

\* The tasks that were given a request() to run.
Requested == {t \in Tasks : pc[t] # "idle"}

\* C7: a get() that returns has made exactly 1 + NumOffsets request() calls
\* and returns that many pages, each call taking one HTTP call besides those
\* answered 429; that is 1 for a probe page without the three fields or with
\* all of them zero, and 2 for count = 2, limit = 1, offset = 0.
C7_RequestCount ==
    gpc = "returned" =>
        /\ Cardinality(Requested) = 1 + NumOffsets(meta)
        /\ Len(results) = 1 + NumOffsets(meta)
        /\ \A t \in Requested : calls[t] = n429[t] + 1
        /\ (~meta.has \/ (meta.count = 0 /\ meta.limit = 0 /\ meta.offset = 0)) =>
               (Cardinality(Requested) = 1 /\ Len(results) = 1)
        /\ (meta.has /\ meta.count = 2 /\ meta.limit = 1 /\ meta.offset = 0) =>
               (Cardinality(Requested) = 2 /\ Len(results) = 2)

\* C7 witness: get() has returned 2 pages for count = 2, limit = 1, offset = 0.
C7_Witness ==
    /\ gpc = "returned"
    /\ meta.has /\ meta.count = 2 /\ meta.limit = 1 /\ meta.offset = 0
    /\ Len(results) = 2

\* C8: with limit = 0 and count > 0 on the probe page, get() returns just the
\* probe page, makes no further request and raises no error.
C8_ZeroLimitSinglePage ==
    (meta.has /\ meta.limit = 0 /\ meta.count > 0 /\ pc[1] = "returned" /\ gpc # "probe") =>
        (gpc = "returned" /\ Len(results) = 1 /\ Children = {})

\* C9: once a page request has raised, get() never returns a page list: it
\* can only raise, and can do so at once; after a failed probe no further
\* request is made.
C9_AnyFailureFailsAll ==
    /\ (\E t \in Tasks : pc[t] = "raised") =>
           /\ gpc # "returned"
           /\ gpc \in {"probe", "gather"} => ENABLED (ProbeFailed \/ GatherFailed)
    /\ pc[1] = "raised" => Children = {}

\* C9 witness: get() has raised because one child raised, although another
\* child had returned its page.
C9_Witness ==
    /\ gpc = "raised"
    /\ \E t \in Children : pc[t] = "raised"
    /\ \E t \in Children : pc[t] = "returned"

\* C10: a get() that returns gives the probe page first and then the pages at
\* offset + limit, offset + 2 * limit, ... in that order.
C10_OffsetOrder ==
    gpc = "returned" =>
        \A i \in 1..Len(results) :
            /\ results[i].has = meta.has
            /\ results[i].offset = meta.offset + (i - 1) * meta.limit

\* C10 witness: get() has returned three pages, the request for the third
\* having completed before the request for the second.
C10_Witness ==
    /\ gpc = "returned"
    /\ Len(results) = 3
    /\ finished = <<3, 2>>

\* The page requests of get() that are in flight: between a returned
\* acquire() and the matching release().
InFlight == {t \in Tasks : held[t]}

\* C11: while the tasks given to gather() run, the number of page requests in
\* flight never exceeds the limiter's capacity.
C11_FanOutBounded == Cardinality(InFlight) <= bound_value

\* C11 witness: during a fan-out of two or more requests, as many children
\* are in flight as the capacity allows and another child waits for a permit.
C11_Witness ==
    /\ gpc = "gather"
    /\ Cardinality(Children) >= 2
    /\ Cardinality(InFlight \cap Children) = bound_value
    /\ \E t \in Children : pc[t] = "waiting"

\* C12: every HTTP call is made under a permit acquired for it, each acquired
\* permit is released once on every way out of the attempt (2xx, 429, other
\* status, transport error, cancellation), and so the permits are conserved:
\* free + in flight + pending release = capacity.
C12_ReleaseOncePerAcquire ==
    /\ [](/\ value + Cardinality(InFlight) + Len(releases) = bound_value
          /\ \A t \in Callers :
                /\ pc[t] = "io" => held[t]
                /\ held[t] => pc[t] \in {"io", "backoff"}
                /\ pc[t] = "cancelled" => t \notin Range(waiters))
    /\ [][\A t \in Callers :
            /\ calls'[t] # calls[t] =>
                  /\ calls'[t] = calls[t] + 1 /\ held'[t]
                  /\ value' = value - 1
                  /\ held[t] => releases' = Released(releases)
            /\ (held[t] /\ ~held'[t]) => releases' = Released(releases)]_vars

\* C12 witness: a request was cancelled during the backoff sleep after a 429
\* and holds no permit, and the permit of its attempt is pending release.
C12_Witness ==
    \E t \in Callers :
        /\ pc[t] = "cancelled" /\ last[t] = "429" /\ calls[t] = 1
        /\ Len(releases) = 1 /\ value = bound_value - 1
        /\ \A u \in Callers \ {t} : pc[u] = "idle"

\* C13: a step in which release() is called appends one entry (time, current
\* count) to the pending queue and does not raise the free count (the count
\* falls by one only if the same step is the task's next acquire()); so once
\* a single request() has returned at its first attempt the count is one below
\* the capacity with one release pending, until the replenish loop frees it.
C13_ReleaseOnlyAppends ==
    /\ [](\A t \in Callers :
            (pc[t] = "returned" /\ calls[t] = 1 /\ \A u \in Tasks \ {t} : pc[u] = "idle") =>
                IF releases # <<>>
                THEN Len(releases) = 1 /\ value = bound_value - 1
                ELSE value = bound_value)
    /\ [][Len(releases') > Len(releases) =>
            /\ releases' = Append(releases, <<now, get_counter>>)
            /\ \/ value' = value
               \/ /\ value' = value - 1
                  /\ \E t \in Callers : pc[t] = "backoff" /\ pc'[t] = "io"]_vars

\* C13 witness: one request() has just returned at its first attempt: the
\* count is one below the capacity and its release is pending.
C13_Witness ==
    \E t \in Callers :
        /\ pc[t] = "returned" /\ calls[t] = 1
        /\ \A u \in Tasks \ {t} : pc[u] = "idle"
        /\ releases = <<<<now, get_counter>>>>
        /\ value = bound_value - 1

\* C16: at most one replenish task of the limiter runs in every reachable
\* state, and it is the one in _task; a task is created only by start() on a
\* limiter that is not started; start() on a started limiter and stop() on a
\* stopped one change nothing.
C16_OneLoop ==
    /\ [](loops \in {0, 1} /\ (loops = 1 <=> Running))
    /\ [][/\ loops' > loops => ~started
          /\ (Start /\ started) => UNCHANGED vars
          /\ (Stop /\ ~started) => UNCHANGED vars]_vars

\* C16 witness: the limiter was stopped and started again (its task is about
\* to make its first pass in the middle of a count) and one task runs.
C16_Witness ==
    /\ Running /\ loops = 1
    /\ wake = now /\ now % Period # 0

\* C17: the step of stop() leaves the free count, the waiters and the pending
\* queue as they were and no replenish task runs after it; and while the
\* limiter is stopped the count never rises and no pending entry is removed.
C17_StopKeepsPermits ==
    [][/\ (started /\ ~started') =>
             (value' = value /\ waiters' = waiters /\ releases' = releases /\ loops' = 0)
       /\ (~started /\ ~started') =>
             /\ value' <= value
             /\ Len(releases') >= Len(releases)
             /\ SubSeq(releases', 1, Len(releases)) = releases]_vars

\* C17 witness: the limiter is stopped while a release recorded in an earlier
\* count is pending, its permit still not free.
C17_Witness ==
    /\ ~started
    /\ releases # <<>> /\ Head(releases)[2] < get_counter
    /\ value < bound_value

\* C14: with the replenish loop running, a release recorded at time t is
\* pending at most until t + Period: no pending entry is older than one
\* period, once the loop has made its pass for the current time every
\* pending entry was recorded in the current count, and every permit that
\* is not pending or in flight is in the free count.
C14_FreedWithinPeriod ==
    /\ \A i \in 1..Len(releases) :
          /\ now - releases[i][1] <= Period
          /\ ~Due => (releases[i][2] = get_counter /\ now - releases[i][1] < Period)
    /\ value + Cardinality(InFlight) + Len(releases) = bound_value

\* C14 witness: a release recorded exactly one period ago is still pending
\* and the pass of the loop that frees it is due now.
C14_Witness ==
    /\ Due
    /\ releases # <<>> /\ now - Head(releases)[1] = Period
    /\ Eligible(Head(releases)[2])
    /\ value < bound_value

\* C15: while the replenish loop runs and every holder releases, every task
\* blocked in acquire() eventually holds a permit.
C15_WaiterGetsPermit ==
    \A t \in Callers : (pc[t] = "waiting") ~> held[t]

(***************************************************************************)
(* Properties of the events request() emits.                               *)
(***************************************************************************)
\* The final segment of a path: what follows its last slash.
FinalSegment(p) ==
    LET slashes == {i \in 1..Len(p) : p[i] = "/"} IN
        IF slashes = {} THEN p
        ELSE SubSeq(p, (CHOOSE i \in slashes : \A j \in slashes : j <= i) + 1, Len(p))

\* The items on the queue that carry the response of task t.
EventsOf(t) == {i \in 1..Len(queue) : queue[i][2] = t}

\* C20: the step in which an attempt of request() ends puts one event, named
\* by the final segment of the url's path, on the queue if the attempt ended
\* with a 2xx response and the consumer is running at that moment, and
\* leaves the queue alone otherwise; nothing else puts events, so a request
\* has at most one event and has none unless it returned.
C20_OneEventPerSuccess ==
    /\ [](\A t \in Callers :
            /\ Cardinality(EventsOf(t)) <= 1
            /\ \A i \in EventsOf(t) :
                  pc[t] = "returned" /\ queue[i][1] = FinalSegment(path[t]))
    /\ [][/\ \A t \in Callers :
               (pc[t] = "io" /\ pc'[t] # "io") =>
                   queue' = IF pc'[t] = "returned" /\ listening
                            THEN Append(queue, <<FinalSegment(path[t]), t>>)
                            ELSE queue
          /\ queue' # queue => \E t \in Callers : pc[t] = "io" /\ pc'[t] = "returned"]_vars

\* C20 witness: a request for /fred/series/observations got a 429, was tried
\* again and returned while the consumer was running: its one event
\* "observations" is on the queue.
C20_Witness ==
    \E t \in Callers :
        /\ pc[t] = "returned" /\ n429[t] >= 1
        /\ queue = << << <<"observations">>, t >> >>

(***************************************************************************)
(* Properties of replacing the limiter.                                    *)
(***************************************************************************)
\* C18: in no reachable state do the replenish loop of the replaced limiter
\* and that of the new limiter both run.
C18_OldLoopStopped == ~(old.exists /\ old.task = "alive" /\ Running)

\* C19: every task that waits in acquire() on the replaced limiter
\* eventually holds a permit of it.
C19_OldWaitersServed ==
    \A t \in Callers : (on[t] = "old" /\ pc[t] = "waiting") ~> held[t]

(***************************************************************************)
(* Properties of the pages get() returns.                                  *)
(***************************************************************************)
\* The items a page holds: those from its offset on, limit of them at most,
\* below count.
Items(page) ==
    {i \in 0..(MaxCount - 1) :
        page.offset <= i /\ i < page.offset + page.limit /\ i < page.count}

\* The offsets of the pages get() has in results.
Fetched == {results[i].offset : i \in 1..Len(results)}

\* C21 as stated: a get() that returns, for a positive count and limit, has
\* fetched exactly the offsets 0, limit, 2 * limit, ... below count, each
\* once, and its pages hold each of the count items once.
C21_OffsetsFromZero ==
    (gpc = "returned" /\ meta.has /\ meta.count > 0 /\ meta.limit > 0) =>
        /\ Fetched = {o \in 0..MaxCount :
                         \E k \in 0..MaxCount : o = k * meta.limit /\ o < meta.count}
        /\ Cardinality(Fetched) = Len(results)
        /\ UNION {Items(results[i]) : i \in 1..Len(results)} = 0..(meta.count - 1)

\* C21 as amended: a get() that returns has fetched the probe's own offset
\* and exactly the offsets offset + limit, offset + 2 * limit, ... below
\* count, each by one request() and once, and its pages hold each item from
\* offset to count - 1 once and no other item.
C21_OffsetsFromProbe ==
    (gpc = "returned" /\ meta.has) =>
        /\ Fetched = {meta.offset} \cup
                     {o \in 0..MaxCount :
                         \E k \in 1..MaxCount : o = meta.offset + k * meta.limit
                                                /\ o < meta.count}
        /\ Cardinality(Fetched) = Len(results)
        /\ Cardinality(Requested) = Len(results)
        /\ \A t \in Requested : pc[t] = "returned" /\ last[t] = "ok"
        /\ \A t, u \in Children : t # u => url[t] # url[u]
        /\ UNION {Items(results[i]) : i \in 1..Len(results)} =
               {i \in 0..(meta.count - 1) : i >= meta.offset}
        /\ \A i, j \in 1..Len(results) :
               i # j => Items(results[i]) \cap Items(results[j]) = {}

\* C21 witness: get() has returned for count = 3, limit = 1 and a probe at
\* offset 1: two pages, at offsets 1 and 2, holding items 1 and 2.
C21_Witness ==
    /\ gpc = "returned"
    /\ meta.has /\ meta.count = 3 /\ meta.limit = 1 /\ meta.offset = 1
    /\ Fetched = {1, 2}
    /\ Len(results) = 2

(***************************************************************************)
(* Properties of the event bus.                                            *)
(***************************************************************************)
\* C22: in every reachable state at most one consumer task exists, and
\* running() is true exactly while it does; the bus starts listening only
\* by a step of listen() and stops only by a step of cancel(); listen()
\* while the consumer runs changes nothing.
C22_BusStateMachine ==
    /\ [](consumers \in {0, 1} /\ (running <=> consumers = 1))
    /\ [][/\ (~listening /\ listening') => (Listen /\ consumers' = consumers + 1)
          /\ (listening /\ ~listening') =>
                /\ FlushDone \/ FlushTimeout \/ \E tmo \in BOOLEAN : CancelCall(tmo)
                /\ consumers' = consumers - 1
          /\ (Listen /\ listening) => UNCHANGED vars]_vars

\* C22 witness: the bus listens again, with one consumer task, after a
\* cancel() that timed out had made it idle.
C22_Witness ==
    /\ listening /\ consumers = 1
    /\ canc.pc = "idle" /\ canc.reported

\* C23: while the bus listens no register() is accepted, for any name: the
\* handlers that dispatch can see do not change.
C23_FrozenWhileListening == [][listening => handlers' = handlers]_vars

\* The items of q whose name has no Event.
Unmatched(q) == SelectSeq(q, LAMBDA item : ~Matched(item[1]))

\* The events a task running Event.apply exists for.
ApplyingIds == {applying[k].id : k \in 1..Len(applying)}

\* C24: the step of the consumer that takes an item whose name has no Event
\* makes no task for it and calls none of its handlers, marks it done once
\* (the unfinished tasks are always the items on the queue and the events
\* being applied), and leaves the consumer running; and produce() can be
\* called and returns in any state, whatever is registered.
C24_UnmatchedDropped ==
    /\ [](/\ unfinished = Len(queue) + Len(applying)
          /\ produced < MaxEvents => \A n \in Names : ENABLED Produce(n))
    /\ [][Len(queue') < Len(queue) =>
            /\ queue' = <<>>
            /\ listening' /\ consumers' = consumers
            /\ unfinished' = unfinished - Len(Unmatched(queue))
            /\ Len(applying') = Len(applying) + Len(queue) - Len(Unmatched(queue))
            /\ \A i \in 1..Len(Unmatched(queue)) :
                  LET e == Unmatched(queue)[i][2] IN
                      e \notin {applying'[k].id : k \in 1..Len(applying')}
                      /\ delivered'[e] = 0]_vars

\* C24 witness: the first event produced had a name without an Event while
\* another name had handlers: it is gone from the queue, no handler was
\* called for it, nothing is unfinished and the consumer runs.
C24_Witness ==
    /\ listening /\ consumers = 1
    /\ produced >= 1 /\ 1 \notin QueueIds \cup ApplyingIds
    /\ delivered[1] = 0
    /\ unfinished = 0
    /\ \E n \in Names : Matched(n)

\* C25: when the handlers of an event have been gone through (the task
\* running Event.apply for it ends), every handler registered for its name
\* has been called for it, whether or not one of them raised.
C25_OtherHandlersStillRun ==
    [][\A k \in 1..Len(applying) :
          applying[k].id \notin {applying'[m].id : m \in 1..Len(applying')} =>
              delivered'[applying[k].id] = handlers[applying[k].name]]_vars

\* C26: the step in which the handlers of an event are done with, a raise
\* included, marks the event's item done and touches neither the consumer,
\* nor the queue, nor the task of any other event; and while the bus listens
\* every event on the queue is taken off it and, if its name has an Event,
\* its first handler is called.
C26_RaiseDoesNotStall ==
    /\ [][\A k \in 1..Len(applying) :
            applying[k].id \notin {applying'[m].id : m \in 1..Len(applying')} =>
                /\ unfinished' = unfinished - 1
                /\ applying' = Dropped(applying, k)
                /\ listening' = listening /\ consumers' = consumers
                /\ queue' = queue]_vars
    /\ \A e \in 1..MaxEvents :
          (e \in QueueIds /\ listening) ~>
              (~listening \/ (e \notin QueueIds /\ e \notin ApplyingIds)
                          \/ delivered[e] > 0)

\* C26 witness: the first event's handler list was left at a raise (one of
\* its two handlers was called, and none is being awaited), and the event
\* produced after it has had its handlers called too, the consumer running.
C26_Witness ==
    /\ listening /\ consumers = 1
    /\ produced = 2
    /\ \E n \in Names : handlers[n] = 2
    /\ delivered[1] = 1 /\ 1 \notin QueueIds \cup ApplyingIds
    /\ delivered[2] >= 1
    /\ unfinished = Cardinality(ApplyingIds)

\* C27: a cancel() that does not time out cancels the consumer and returns
\* only after join() has returned; join() returns only in a state where the
\* queue is empty and no task running Event.apply is left, so every event
\* produced before that has been taken off the queue and its handlers are
\* done with; and until then the consumer keeps running.
C27_CancelAfterDrain ==
    /\ [](canc.pc = "flushing" => (listening /\ unfinished > 0))
    /\ [][/\ (canc.pc # "drained" /\ canc'.pc = "drained") =>
                (unfinished' = 0 /\ queue' = <<>> /\ applying' = <<>>)
          /\ (listening /\ ~listening' /\ ~canc'.reported) =>
                \/ canc.pc = "drained"
                \/ canc.pc = "idle" /\ queue = <<>> /\ applying = <<>>]_vars

\* C27 witness: a cancel() without timeout had to wait for two events, both
\* with handlers: now both are off the queue, their handlers are done with,
\* and cancel() is about to cancel the consumer.
C27_Witness ==
    /\ canc.pc = "drained" /\ ~canc.timeout
    /\ listening
    /\ produced = 2 /\ delivered[1] >= 1 /\ delivered[2] >= 1
    /\ queue = <<>> /\ applying = <<>>

C29_AbandonedOnTimeout ==
    \A e \in abandoned :
        e \notin QueueIds /\ e \notin ApplyingIds /\ delivered[e] = 0

\* The name of the event a task running Event.apply exists for.
NameOf(e) == applying[CHOOSE k \in 1..Len(applying) : applying[k].id = e].name

\* The queue and the tasks made from it keep the order of production:
\* produce() puts exactly one item, at the tail; the items on the queue
\* are in the order produced, and so are the tasks not yet run, which were
\* all produced before the items on the queue; nothing leaves the queue
\* while the bus is idle.
QueueInOrder ==
    /\ [](/\ \A i, j \in 1..Len(queue) : i < j => queue[i][2] < queue[j][2]
          /\ \A k, m \in 1..Len(applying) :
                (k < m /\ applying[k].st = "new" /\ applying[m].st = "new") =>
                    applying[k].id < applying[m].id
          /\ \A k \in 1..Len(applying), i \in 1..Len(queue) :
                applying[k].id < queue[i][2])
    /\ [][/\ produced' # produced =>
                /\ produced' = produced + 1
                /\ \E n \in Names : queue' = Append(queue, <<n, produced'>>)
          /\ ~listening =>
                (Len(queue') >= Len(queue) /\ SubSeq(queue', 1, Len(queue)) = queue)]_vars

\* C30 as stated: the order of production is kept, and when a handler of
\* an event is called every handler of every event produced before it has
\* been called (or that event was dropped or left at a raise).
C30_HandlersInOrder ==
    /\ QueueInOrder
    /\ [][\A e2 \in 1..MaxEvents :
            delivered'[e2] > delivered[e2] =>
                \A e1 \in 1..(e2 - 1) :
                    /\ e1 \notin QueueIds
                    /\ e1 \in ApplyingIds => delivered[e1] >= handlers[NameOf(e1)]]_vars

\* C30 as amended: the order of production is kept, and when the first
\* handler of an event is called every event produced before it is off the
\* queue and, if its name has an Event, has had its first handler called.
C30_DispatchInOrder ==
    /\ QueueInOrder
    /\ [][\A e2 \in 1..MaxEvents :
            (delivered[e2] = 0 /\ delivered'[e2] > 0) =>
                \A e1 \in 1..(e2 - 1) :
                    /\ e1 \notin QueueIds
                    /\ e1 \in ApplyingIds => delivered[e1] > 0]_vars

\* C30 witness: two events were produced while the bus was idle and
\* dispatched once it listened; the first handler of event 1 is suspended,
\* its second not called yet, and a handler of event 2 has been called.
C30_Witness ==
    /\ produced = 2
    /\ \E k \in 1..Len(applying) :
          /\ applying[k].id = 1 /\ applying[k].st = "suspended"
          /\ handlers[applying[k].name] = 2
    /\ delivered[1] = 1
    /\ delivered[2] >= 1


\* ---------------------------------------------------------------------------
\* C31
\* ---------------------------------------------------------------------------

\* A step of the k-th task running Event.apply in which the handler it stops
\* at suspends, and one in which the task ends with no handler having raised.
SuspendStep(k) == \E stop \in 1..MaxHandlers : ApplyStep(k, stop, "async")
ReturnStep(k) == \E stop \in 1..MaxHandlers : ApplyStep(k, stop, "sync")

\* The serial numbers of the events that are on the queue or with a task.
Pending == ApplyingIds \cup QueueIds

\* C31: an event whose name has handlers, none of which raises, has its
\* handlers called one after the other in the order of the list, each one
\* once: the handlers called so far are always the first ones of the list and
\* a step goes on from the next one.  The item is marked done once, in the
\* step in which the last handler has returned and not before, and the event
\* is then neither on the queue nor with any task.
C31_EachHandlerOnceThenDone ==
    [][\A k \in 1..Len(applying) :
          LET a == applying[k]
          IN  /\ a.next = delivered[a.id] + 1
              /\ SuspendStep(k) =>
                    /\ delivered'[a.id] \in a.next..handlers[a.name]
                    /\ unfinished' = unfinished
                    /\ a.id \in ApplyingIds'
              /\ ReturnStep(k) =>
                    /\ delivered'[a.id] = handlers[a.name]
                    /\ unfinished' = unfinished - 1
                    /\ a.id \notin Pending'
      ]_vars

\* The one event produced, of a name with as many handlers as there can be,
\* has had all of them called and is done.
C31_Witness ==
    /\ \E n \in Names : handlers[n] = MaxHandlers
    /\ produced = 1
    /\ delivered[1] = MaxHandlers
    /\ applying = <<>>
    /\ queue = <<>>
    /\ unfinished = 0


\* ---------------------------------------------------------------------------
\* C32
\* ---------------------------------------------------------------------------

\* C32: a pass of the replenish loop that takes entries from the pending
\* queue leaves the free count at most the capacity and the loop running,
\* also when an entry stems from a release() without an acquire().
C32_LoopSurvivesOverRelease ==
    [][(Running /\ Len(releases') < Len(releases)) =>
          (Running' /\ value' <= bound_value)]_vars


\* ---------------------------------------------------------------------------
\* C33
\* ---------------------------------------------------------------------------

\* The period is a whole number of seconds.
WholePeriod == probe.period % TicksPerUnit = 0

\* The time passed since the period of the clock reading began.
Elapsed == probe.time % probe.period

\* C33: called without reltime at the time now, get_backoff without rounding
\* returns period - (now mod period), which is above 0 and at most the
\* period; with rounding it returns the least whole number of seconds that is
\* not below that value.  For a period of whole seconds the unrounded value
\* is in (0, 1] during the last second of a period and in (period - 1,
\* period] during the first.  After a sleep of the unrounded value the clock
\* is exactly at the start of a period and get_counter is one more than it
\* was at the call.
C33_BackoffToNextEpoch ==
    LET raw == probe.period - Elapsed
    IN  /\ (probe.st = "backoff" /\ probe.reltime = <<>>) =>
              /\ raw \in 1..probe.period
              /\ ~probe.ceil => probe.backoff = raw
              /\ probe.ceil =>
                    /\ probe.backoff % TicksPerUnit = 0
                    /\ probe.backoff >= raw
                    /\ probe.backoff - raw < TicksPerUnit
              /\ (WholePeriod /\ Elapsed >= probe.period - TicksPerUnit) =>
                    raw \in 1..TicksPerUnit
              /\ (WholePeriod /\ Elapsed < TicksPerUnit) =>
                    raw \in (probe.period - TicksPerUnit + 1)..probe.period
        /\ (probe.st = "slept" /\ probe.reltime = <<>> /\ ~probe.ceil) =>
              /\ probe.time % probe.period = 0
              /\ GetCounter(probe.period, probe.time) = probe.counter + 1

\* A limiter of the default period was asked half a second before the end
\* of its second period for the unrounded backoff, which was half a second,
\* and the sleep has ended.
C33_Witness ==
    /\ probe.st = "slept"
    /\ probe.period = FRED_API_RATE_RESET * TicksPerUnit
    /\ probe.reltime = <<>> /\ ~probe.ceil
    /\ probe.counter = 1
    /\ probe.backoff = 1
    /\ probe.time = 2 * probe.period


\* ---------------------------------------------------------------------------
\* C34
\* ---------------------------------------------------------------------------

\* C34: while the limiter is not started no acquire() hands out a permit and
\* none makes its caller wait: the call fails.
C34_AcquireFailsWhenNotStarted ==
    [][\A t \in Callers :
          ~started =>
             /\ held'[t] => held[t]
             /\ pc'[t] = "waiting" => pc[t] = "waiting"]_vars


\* ---------------------------------------------------------------------------
\* C35
\* ---------------------------------------------------------------------------

\* The entry was recorded in the count the clock shows, or in a later one.
NotEarlier(e) == e[2] >= get_counter

\* C35: a pass of the replenish loop that ends in its sleep, however late it
\* is made, frees every pending entry recorded in a count before the one the
\* clock shows at the pass and no other: what stays in the queue are the
\* entries of the count of the clock, and the free count has gone up by the
\* number of entries taken.
C35_PassFreesAllEarlier ==
    [][(Replenish /\ Running') =>
          /\ releases' = SelectSeq(releases, NotEarlier)
          /\ \A i \in 1..Len(releases') : ~Eligible(releases'[i][2])
          /\ value' = value + (Len(releases) - Len(releases'))
          /\ wake' > now]_vars

\* The one permit of a limiter was taken twice within one period, so a pass
\* has freed it in between; the second release is pending, recorded in the
\* count of the clock, and the loop sleeps.
C35_Witness ==
    /\ bound_value = 1 /\ extra = 0
    /\ RollingAcq = 2
    /\ Running /\ wake > now
    /\ Len(releases) = 1 /\ releases[1][2] = get_counter
    /\ value = 0


\* ---------------------------------------------------------------------------
\* C36
\* ---------------------------------------------------------------------------

C37_Conservation ==
    (extra = 0) => value + Cardinality(InFlight) + Len(releases) = bound_value

\* A limiter of the largest capacity in a count after the first: a permit is
\* held, a release is pending, and more acquire() calls than the capacity
\* have returned within one period, so a freed permit was taken again.
C37_Witness ==
    /\ extra = 0
    /\ get_counter >= 1
    /\ Cardinality(InFlight) >= 1
    /\ Len(releases) >= 1
    /\ value + Cardinality(InFlight) + Len(releases) = MaxCapacity
    /\ RollingAcq > bound_value


\* ---------------------------------------------------------------------------
\* C38
\* ---------------------------------------------------------------------------

\* C38: a listen() that starts the consumer freezes every Event there is; an
\* Event that is frozen stays frozen in every later step, cancel() included,
\* and its handlers stay as they are: register() for its name adds nothing,
\* whether the consumer runs or not.
C38_FrozenForGood ==
    [][/\ (~listening /\ listening') => \A n \in Names : Matched(n) => frozen'[n]
       /\ \A n \in Names :
             frozen[n] => (frozen'[n] /\ handlers'[n] = handlers[n])]_vars

\* The consumer was started and cancelled again, nothing is left to do, and
\* a register() for the name of a frozen Event can be called.
C38_Witness ==
    /\ ~listening /\ canc.pc = "idle"
    /\ queue = <<>> /\ applying = <<>>
    /\ \E n \in Names : frozen[n] /\ Matched(n) /\ ENABLED Register(n)

=============================================================================
